---- MODULE Spec2Model ----
(***************************************************************************)
(* Event check-in backend (siaya_backend): the check-in ledger, the        *)
(* check-in transaction, participant upserts, events and their assigned    *)
(* users, and the read endpoints built on the ledger.                      *)
(*                                                                         *)
(* The relational store is modelled table by table.  Every handler is      *)
(* split at its awaited store operations, so that requests interleave the  *)
(* way request-per-task concurrency over one shared store lets them.       *)
(***************************************************************************)
EXTENDS Integers, FiniteSets, Sequences, Bags, TLC

VARIABLES
    day,            \* the server-local calendar day (what new Date() falls on)
    users,          \* table users: id -> [role, adminId, refreshToken]
    events,         \* table events: eventId -> [createdById], existing rows only
    usedEvents,     \* event ids ever generated (a uuid is never generated twice)
    assignedUsers,  \* join table users_events: set of <<eventId, userId>>
    participants,   \* table participants: id -> row, existing rows only
    checkInLogs,    \* table check_in_logs: a bag of rows (the generated id is
                    \* the only thing telling two equal rows apart)
    req,            \* the check-in requests in flight, one per request slot
    del,            \* the event delete request in flight
    resp,           \* the response the last step sent (NoResp when it sent none)
    clock,          \* the second the server's clock shows (the iat of a token)
    refresh,        \* the token refresh requests in flight, one per request slot
    spent,          \* the refresh tokens a refresh has consumed or a logout or
                    \* user deletion has revoked; no handler reads it
    stat            \* the statistics request in flight

vars == <<day, users, events, usedEvents, assignedUsers, participants,
          checkInLogs, req, del, resp, clock, refresh, spent, stat>>

----------------------------------------------------------------------------
(* Bounds and input domains *)

MaxDay == 2

MaxEvents == 1

MaxSecond == 1

Days == 1..MaxDay

NULL == "NULL"

\* UserRole, src/src/entities/User.ts
SUPER_ADMIN == "super_admin"
ADMIN == "admin"
USER == "user"

UserRole == {SUPER_ADMIN, ADMIN, USER}

UserIds == {"sa", "ad", "u0", "u1"}

EventIds == {"e1", "e2"}

PartIds == {"p1", "p2"}

IdNumbers == {"n1", "n2"}

Counties == {"A", NULL}

ReqIds == {"r1", "r2"}

\* a refresh token is the signed payload, which names the user, and the
\* second it was signed in (iat); the column refreshToken holds one or null
\* (NoToken)
NoToken == [userId |-> NULL, iat |-> 0]

\* a calendar date; the date column dateOfBirth holds one or null (NoDate)
NoDate == [known |-> FALSE, year |-> 0, month |-> 0, date |-> 0]

\* The users table: the seeded super admin, an admin, a self-signed-up user
\* (adminId stays null) and a user created by the super admin.
SeedUsers ==
    [u \in UserIds |->
        CASE u = "sa" -> [role |-> SUPER_ADMIN, adminId |-> NULL,
                          refreshToken |-> NoToken]
          [] u = "ad" -> [role |-> ADMIN, adminId |-> NULL,
                          refreshToken |-> NoToken]
          [] u = "u0" -> [role |-> USER, adminId |-> NULL,
                          refreshToken |-> NoToken]
          [] u = "u1" -> [role |-> USER, adminId |-> "sa",
                          refreshToken |-> NoToken]]

----------------------------------------------------------------------------
(* Helpers over the tables *)

IsSuperAdmin(u) == users[u].role = SUPER_ADMIN

\* requireAdmin lets admins and super admins through
IsAdminOrSuper(u) == users[u].role \in {ADMIN, SUPER_ADMIN}

\* rows of check_in_logs as a set (each row as often as the bag holds it is
\* counted by CopiesIn)
LogRows == BagToSet(checkInLogs)

\* count({ where: { eventId } }) on check_in_logs
LogCount(e) ==
    LET rows == {l \in LogRows : l.eventId = e}
        RECURSIVE Sum(_)
        Sum(S) == IF S = {} THEN 0
                  ELSE LET x == CHOOSE y \in S : TRUE
                       IN CopiesIn(x, checkInLogs) + Sum(S \ {x})
    IN Sum(rows)

\* the rows left after DELETE ... WHERE on check_in_logs removes the rows of
\* the set gone
LogsWithout(gone) ==
    [l \in LogRows \ gone |-> checkInLogs[l]]

IdleReq == [pc |-> "idle", caller |-> NULL, eventId |-> NULL,
            idNumber |-> NULL, participantId |-> NULL, today |-> 0]

\* removedRows records whether the request has deleted a row so far; no
\* handler reads it
IdleDel == [pc |-> "idle", eventId |-> NULL, removedRows |-> FALSE]

\* user is the row the request has read from users
IdleRefresh == [pc |-> "idle", token |-> NoToken,
                user |-> [role |-> USER, adminId |-> NULL, refreshToken |-> NoToken]]

\* body holds the counts the request has queried so far
IdleStat == [pc |-> 0, eventId |-> NULL, body |-> << >>]

NoResp == [op |-> "none", status |-> 0, message |-> "", body |-> {}]

\* res.status(status).json({ message, ...body })
ReplyBody(op, status, message, body) ==
    [op |-> op, status |-> status, message |-> message, body |-> body]

Reply(op, status, message) == ReplyBody(op, status, message, {})

----------------------------------------------------------------------------
(* Access scoping *)

UserRow(u) == [id |-> u, role |-> users[u].role, adminId |-> users[u].adminId]

EventRow(e) == [eventId |-> e, createdById |-> events[e].createdById]

\* an admin treated like a plain user
checkEventAccessAdminAsUser(event, user) ==
    IF user.role = SUPER_ADMIN
    THEN TRUE
    ELSE user.adminId # NULL /\ event.createdById = user.adminId

\* checkEventAccess(event, user): event and user are rows
checkEventAccess(event, user) ==
    IF user.role = SUPER_ADMIN
    THEN TRUE
    ELSE IF user.role = ADMIN
    THEN event.createdById = user.id
    ELSE user.adminId # NULL /\ event.createdById = user.adminId

----------------------------------------------------------------------------
Init ==
    /\ day = 1
    /\ users = SeedUsers
    /\ events = << >>
    /\ usedEvents = {}
    /\ assignedUsers = {}
    /\ participants = << >>
    /\ checkInLogs = EmptyBag
    /\ req = [r \in ReqIds |-> IdleReq]
    /\ del = IdleDel
    /\ resp = NoResp
    /\ clock = 0
    /\ refresh = [r \in ReqIds |-> IdleRefresh]
    /\ spent = {}
    /\ stat = IdleStat

\* the calendar moves on
Tick ==
    /\ day < MaxDay
    /\ day' = day + 1
    /\ UNCHANGED <<users, events, usedEvents, assignedUsers, participants,
                   checkInLogs, req, del>>
    /\ UNCHANGED <<clock, refresh, spent, stat>>
    /\ resp' = NoResp

----------------------------------------------------------------------------
(* The store's constraints on check_in_logs and participants *)

\* a ledger without the unique index
UniqueViolationOff(row) == FALSE

\* the unique index on (participantId, eventId, checkInDate)
UniqueViolation(row) ==
    \E l \in LogRows : /\ l.participantId = row.participantId
                       /\ l.eventId = row.eventId
                       /\ l.checkInDate = row.checkInDate

\* the foreign keys of a check_in_logs row: participant, event, acting user
LogForeignKeysHold(row) ==
    /\ row.participantId \in DOMAIN participants
    /\ row.eventId \in DOMAIN events
    /\ row.checkedInById = NULL \/ row.checkedInById \in DOMAIN users

\* the foreign key participants.eventId -> events (nullable)
ParticipantForeignKeyHolds(row) ==
    row.eventId = NULL \/ row.eventId \in DOMAIN events

\* rows of participants: the columns the handlers and the aggregations read
ParticipantRows ==
    [idNumber : IdNumbers, eventId : EventIds, county : Counties,
     constituency : {NULL}, isInvited : {FALSE}, isRegisteredVoter : {FALSE},
     dateOfBirth : {NoDate}]

----------------------------------------------------------------------------
(* POST /participants/checkin *)

\* findOne({ where: { eventId, idNumber } }) on participants: the rows that match
MatchingParticipants(eventId, idNumber) ==
    {p \in DOMAIN participants : /\ participants[p].eventId = eventId
                                 /\ participants[p].idNumber = idNumber}

\* a lookup that asks for the day before today
existingCheckInYesterday(participantId, eventId, today) ==
    \E l \in LogRows : /\ l.participantId = participantId
                       /\ l.eventId = eventId
                       /\ l.checkInDate = today - 1

\* findOne({ where: { participantId, eventId, checkInDate: today } })
existingCheckIn(participantId, eventId, today) ==
    \E l \in LogRows : /\ l.participantId = participantId
                       /\ l.eventId = eventId
                       /\ l.checkInDate = today

\* a row that leaves out who checked the participant in
NewCheckInLogNoActor(q) ==
    [participantId |-> q.participantId,
     eventId       |-> q.eventId,
     checkedInById |-> NULL,
     checkInDate   |-> q.today]

\* checkInLogRepository.create({...}) of the handler
NewCheckInLog(q) ==
    [participantId |-> q.participantId,
     eventId       |-> q.eventId,
     checkedInById |-> q.caller,
     checkInDate   |-> q.today]

\* a check that forgets idNumber
RequiredFieldsMissingEventOnly(eventId, idNumber) == eventId \in {NULL, ""}

\* !eventId || !idNumber: a field that is absent or the empty string
RequiredFieldsMissing(eventId, idNumber) ==
    eventId \in {NULL, ""} \/ idNumber \in {NULL, ""}

\* the request arrives: the required-field check and the event lookup
CheckInBegin(r, caller, eventId, idNumber) ==
    /\ req[r].pc = "idle"
    /\ IF RequiredFieldsMissing(eventId, idNumber)
       THEN /\ resp' = Reply("checkin", 400, "Event ID and ID number are required")
            /\ UNCHANGED req
       ELSE IF eventId \notin DOMAIN events
       THEN /\ resp' = Reply("checkin", 404, "Event not found")
            /\ UNCHANGED req
       ELSE /\ req' = [req EXCEPT ![r] =
                         [pc |-> "findParticipant", caller |-> caller,
                          eventId |-> eventId, idNumber |-> idNumber,
                          participantId |-> NULL, today |-> 0]]
            /\ resp' = NoResp
    /\ UNCHANGED <<day, users, events, usedEvents, assignedUsers, participants,
                   checkInLogs, del>>
    /\ UNCHANGED <<clock, refresh, spent, stat>>

\* the participant lookup by (eventId, idNumber); with several matching rows
\* the store returns any one of them
CheckInFindParticipant(r) ==
    /\ req[r].pc = "findParticipant"
    /\ LET found == MatchingParticipants(req[r].eventId, req[r].idNumber)
       IN IF found = {}
          THEN /\ resp' = Reply("checkin", 404, "Participant not found. Please register first.")
               /\ req' = [req EXCEPT ![r] = IdleReq]
          ELSE /\ \E p \in found :
                    req' = [req EXCEPT ![r].pc = "lookup", ![r].participantId = p]
               /\ resp' = NoResp
    /\ UNCHANGED <<day, users, events, usedEvents, assignedUsers, participants,
                   checkInLogs, del>>
    /\ UNCHANGED <<clock, refresh, spent, stat>>

\* today is taken from the clock and the ledger is asked for today's row
CheckInLookup(r) ==
    /\ req[r].pc = "lookup"
    /\ IF existingCheckIn(req[r].participantId, req[r].eventId, day)
       THEN /\ resp' = Reply("checkin", 400, "Participant already checked in today")
            /\ req' = [req EXCEPT ![r] = IdleReq]
       ELSE /\ req' = [req EXCEPT ![r].pc = "insert", ![r].today = day]
            /\ resp' = NoResp
    /\ UNCHANGED <<day, users, events, usedEvents, assignedUsers, participants,
                   checkInLogs, del>>
    /\ UNCHANGED <<clock, refresh, spent, stat>>

\* a save that overwrites the row the participant has in the event instead of
\* adding one
CheckInSaveOverwrite(r) ==
    /\ req[r].pc = "insert"
    /\ LET row == NewCheckInLog(req[r])
       IN IF LogForeignKeysHold(row) /\ ~UniqueViolation(row)
          THEN /\ checkInLogs' =
                     LogsWithout({l \in LogRows : /\ l.participantId = row.participantId
                                                   /\ l.eventId = row.eventId})
                     (+) SetToBag({row})
               /\ resp' = Reply("checkin", 201, "Participant checked in successfully")
          ELSE /\ resp' = Reply("checkin", 500, "Internal server error")
               /\ UNCHANGED checkInLogs
    /\ req' = [req EXCEPT ![r] = IdleReq]
    /\ UNCHANGED <<day, users, events, usedEvents, assignedUsers, participants, del>>
    /\ UNCHANGED <<clock, refresh, spent, stat>>

\* checkInLogRepository.save(checkInLog): the insert; a constraint the store
\* rejects it on is an exception, which the handler's catch answers with 500
CheckInSave(r) ==
    /\ req[r].pc = "insert"
    /\ LET row == NewCheckInLog(req[r])
       IN IF LogForeignKeysHold(row) /\ ~UniqueViolation(row)
          THEN /\ checkInLogs' = checkInLogs (+) SetToBag({row})
               /\ resp' = Reply("checkin", 201, "Participant checked in successfully")
          ELSE /\ resp' = Reply("checkin", 500, "Internal server error")
               /\ UNCHANGED checkInLogs
    /\ req' = [req EXCEPT ![r] = IdleReq]
    /\ UNCHANGED <<day, users, events, usedEvents, assignedUsers, participants, del>>
    /\ UNCHANGED <<clock, refresh, spent, stat>>

----------------------------------------------------------------------------
(* POST /participants/add and PATCH /participants/:id/edit *)

\* POST /participants/search: the participants of the event with the idNumber
SearchParticipant(eventId, idNumber) ==
    /\ resp' = IF RequiredFieldsMissing(eventId, idNumber)
               THEN Reply("search", 400, "Event ID and ID number are required")
               ELSE IF MatchingParticipants(eventId, idNumber) = {}
               THEN Reply("search", 404, "Participant not found")
               ELSE ReplyBody("search", 200, "Participant found",
                              MatchingParticipants(eventId, idNumber))
    /\ UNCHANGED <<day, users, events, usedEvents, assignedUsers, participants,
                   checkInLogs, req, del>>
    /\ UNCHANGED <<clock, refresh, spent, stat>>

\* an upsert that deletes the row of the id and inserts the new one, the
\* ledger rows of the participant going with the deleted row
AddParticipantReplace(p, row) ==
    /\ IF ParticipantForeignKeyHolds(row)
       THEN /\ participants' = [q \in DOMAIN participants \cup {p} |->
                                   IF q = p THEN row ELSE participants[q]]
            /\ checkInLogs' = LogsWithout({l \in LogRows : l.participantId = p})
            /\ resp' = Reply("add", 201, "Participant added successfully")
       ELSE /\ resp' = Reply("add", 500, "Error adding participant")
            /\ UNCHANGED <<participants, checkInLogs>>
    /\ UNCHANGED <<day, users, events, usedEvents, assignedUsers, req, del>>
    /\ UNCHANGED <<clock, refresh, spent, stat>>

\* save() of a participant: an insert, or an update when the id exists
AddParticipant(p, row) ==
    /\ IF ParticipantForeignKeyHolds(row)
       THEN /\ participants' = [q \in DOMAIN participants \cup {p} |->
                                   IF q = p THEN row ELSE participants[q]]
            /\ resp' = Reply("add", 201, "Participant added successfully")
       ELSE /\ resp' = Reply("add", 500, "Error adding participant")
            /\ UNCHANGED participants
    /\ UNCHANGED <<day, users, events, usedEvents, assignedUsers, checkInLogs,
                   req, del>>
    /\ UNCHANGED <<clock, refresh, spent, stat>>

\* uuidv4(): an id no row has and nothing refers to
NewParticipantId ==
    CHOOSE p \in PartIds :
        /\ p \notin DOMAIN participants
        /\ \A l \in LogRows : l.participantId # p
        /\ \A r \in ReqIds : req[r].participantId # p

\* POST /participants/add with a body that carries no id: the handler
\* generates one
AddParticipantNewId(row) ==
    /\ \E p \in PartIds :
          /\ p \notin DOMAIN participants
          /\ \A l \in LogRows : l.participantId # p
          /\ \A r \in ReqIds : req[r].participantId # p
    /\ AddParticipant(NewParticipantId, row)

\* update(id, body): changes the row with that id when there is one
EditParticipant(p, row) ==
    /\ IF ParticipantForeignKeyHolds(row)
       THEN /\ participants' = [q \in DOMAIN participants |->
                                   IF q = p THEN row ELSE participants[q]]
            /\ resp' = Reply("edit", 200, "Participant updated successfully")
       ELSE /\ resp' = Reply("edit", 500, "Error updating participant")
            /\ UNCHANGED participants
    /\ UNCHANGED <<day, users, events, usedEvents, assignedUsers, checkInLogs,
                   req, del>>
    /\ UNCHANGED <<clock, refresh, spent, stat>>

----------------------------------------------------------------------------
(* POST /events and DELETE /events/:eventId *)

\* the generated primary key of a new event
NewEventId == CHOOSE e \in EventIds \ usedEvents :
                 \A f \in EventIds \ usedEvents : e = "e1" \/ f # "e1"

CreateEvent(caller) ==
    /\ IF ~IsSuperAdmin(caller)
       THEN /\ resp' = Reply("createEvent", 403, "Super Admin access required")
            /\ UNCHANGED <<events, usedEvents>>
       ELSE /\ Cardinality(usedEvents) < MaxEvents
            /\ usedEvents # EventIds
            /\ events' = [e \in DOMAIN events \cup {NewEventId} |->
                             IF e = NewEventId THEN [createdById |-> caller]
                             ELSE events[e]]
            /\ usedEvents' = usedEvents \cup {NewEventId}
            /\ resp' = Reply("createEvent", 201, "Event created successfully")
    /\ UNCHANGED <<day, users, assignedUsers, participants, checkInLogs, req, del>>
    /\ UNCHANGED <<clock, refresh, spent, stat>>

\* a delete that lets every admin through, creator or not
DeleteEventBeginAnyAdmin(caller, eventId) ==
    /\ del.pc = "idle"
    /\ IF ~IsAdminOrSuper(caller)
       THEN /\ resp' = Reply("deleteEvent", 403, "Admin access required")
            /\ UNCHANGED del
       ELSE IF eventId \notin DOMAIN events
       THEN /\ resp' = Reply("deleteEvent", 404, "Event not found")
            /\ UNCHANGED del
       ELSE /\ del' = [pc |-> "deleteLogs", eventId |-> eventId, removedRows |-> FALSE]
            /\ resp' = NoResp
    /\ UNCHANGED <<day, users, events, usedEvents, assignedUsers, participants,
                   checkInLogs, req>>
    /\ UNCHANGED <<clock, refresh, spent, stat>>

\* the request arrives: requireAdmin, the event lookup and the creator check
DeleteEventBegin(caller, eventId) ==
    /\ del.pc = "idle"
    /\ IF ~IsAdminOrSuper(caller)
       THEN /\ resp' = Reply("deleteEvent", 403, "Admin access required")
            /\ UNCHANGED del
       ELSE IF eventId \notin DOMAIN events
       THEN /\ resp' = Reply("deleteEvent", 404, "Event not found")
            /\ UNCHANGED del
       ELSE IF ~IsSuperAdmin(caller) /\ events[eventId].createdById # caller
       THEN /\ resp' = Reply("deleteEvent", 403, "Access denied. You can only delete events you created.")
            /\ UNCHANGED del
       ELSE /\ del' = [pc |-> "deleteLogs", eventId |-> eventId, removedRows |-> FALSE]
            /\ resp' = NoResp
    /\ UNCHANGED <<day, users, events, usedEvents, assignedUsers, participants,
                   checkInLogs, req>>
    /\ UNCHANGED <<clock, refresh, spent, stat>>

\* 1. checkInLogRepository.delete({ eventId })
DeleteEventLogs ==
    /\ del.pc = "deleteLogs"
    /\ checkInLogs' = LogsWithout({l \in LogRows : l.eventId = del.eventId})
    /\ del' = [del EXCEPT !.pc = "deleteParticipants",
                         !.removedRows = \E l \in LogRows : l.eventId = del.eventId]
    /\ resp' = NoResp
    /\ UNCHANGED <<day, users, events, usedEvents, assignedUsers, participants,
                   req>>
    /\ UNCHANGED <<clock, refresh, spent, stat>>

\* 2. participantRepository.delete({ eventId }); the ledger rows of a deleted
\* participant go with it (ON DELETE CASCADE)
DeleteEventParticipants ==
    /\ del.pc = "deleteParticipants"
    /\ LET gone == {p \in DOMAIN participants : participants[p].eventId = del.eventId}
       IN /\ participants' = [p \in DOMAIN participants \ gone |-> participants[p]]
          /\ checkInLogs' = LogsWithout({l \in LogRows : l.participantId \in gone})
    /\ del' = [del EXCEPT !.pc = "removeEvent",
                         !.removedRows =
                             \/ del.removedRows
                             \/ \E p \in DOMAIN participants :
                                   participants[p].eventId = del.eventId]
    /\ resp' = NoResp
    /\ UNCHANGED <<day, users, events, usedEvents, assignedUsers, req>>
    /\ UNCHANGED <<clock, refresh, spent, stat>>

\* 3. eventRepository.remove(event); a participant row that still references
\* the event makes the store reject the delete, ledger rows and assignments of
\* the event go with it (ON DELETE CASCADE)
DeleteEventRemove ==
    /\ del.pc = "removeEvent"
    /\ IF \E p \in DOMAIN participants : participants[p].eventId = del.eventId
       THEN /\ resp' = Reply("deleteEvent", 500, "Internal server error")
            /\ UNCHANGED <<events, checkInLogs, assignedUsers>>
       ELSE /\ events' = [e \in DOMAIN events \ {del.eventId} |-> events[e]]
            /\ checkInLogs' = LogsWithout({l \in LogRows : l.eventId = del.eventId})
            /\ assignedUsers' = {a \in assignedUsers : a[1] # del.eventId}
            /\ resp' = Reply("deleteEvent", 200, "Event deleted successfully")
    /\ del' = IdleDel
    /\ UNCHANGED <<day, users, usedEvents, participants, req>>
    /\ UNCHANGED <<clock, refresh, spent, stat>>

----------------------------------------------------------------------------
(* authenticate and DELETE /auth/users/:email *)

\* authenticate: the user of the token is looked up, and a request whose user
\* has been deleted is answered 401 before it reaches its handler
AuthenticateRejected(caller) ==
    /\ caller \notin DOMAIN users
    /\ resp' = Reply("authenticate", 401, "User found in token no longer exists")
    /\ UNCHANGED <<day, users, events, usedEvents, assignedUsers, participants,
                   checkInLogs, req, del>>
    /\ UNCHANGED <<clock, refresh, spent, stat>>

\* rows that keep userRepository.remove(user) from going through: an event
\* the user created, a user whose adminId is the user (foreign keys without
\* ON DELETE)
UserIsReferenced(target) ==
    \/ \E e \in DOMAIN events : events[e].createdById = target
    \/ \E u \in DOMAIN users : users[u].adminId = target

\* DELETE /auth/users/:email, the user named by the email being target; the
\* ledger rows the user recorded and the user's assignments go with the
\* user's row (ON DELETE CASCADE)
DeleteUser(caller, target) ==
    /\ caller \in DOMAIN users
    /\ IF ~IsAdminOrSuper(caller)
       THEN /\ resp' = Reply("deleteUser", 403, "Admin access required")
            /\ UNCHANGED <<users, checkInLogs, assignedUsers, spent>>
       ELSE IF target \notin DOMAIN users
       THEN /\ resp' = Reply("deleteUser", 404, "User not found")
            /\ UNCHANGED <<users, checkInLogs, assignedUsers, spent>>
       ELSE IF target = caller
       THEN /\ resp' = Reply("deleteUser", 400, "You cannot delete your own account")
            /\ UNCHANGED <<users, checkInLogs, assignedUsers, spent>>
       ELSE IF ~IsSuperAdmin(caller) /\ users[target].adminId # caller
       THEN /\ resp' = Reply("deleteUser", 403, "Access denied. You can only delete users assigned to you.")
            /\ UNCHANGED <<users, checkInLogs, assignedUsers, spent>>
       ELSE IF UserIsReferenced(target)
       THEN /\ users' = [users EXCEPT ![target].refreshToken = NoToken]
            /\ resp' = Reply("deleteUser", 500, "Internal server error")
            /\ UNCHANGED <<checkInLogs, assignedUsers, spent>>
       ELSE /\ users' = [u \in DOMAIN users \ {target} |-> users[u]]
            /\ spent' = spent \cup ({users[target].refreshToken} \ {NoToken})
            /\ checkInLogs' = LogsWithout({l \in LogRows : l.checkedInById = target})
            /\ assignedUsers' = {a \in assignedUsers : a[2] # target}
            /\ resp' = Reply("deleteUser", 200, "User deleted successfully. All access tokens and refresh tokens have been revoked.")
    /\ UNCHANGED <<day, events, usedEvents, participants, req, del>>
    /\ UNCHANGED <<clock, refresh, stat>>

----------------------------------------------------------------------------
(* POST /auth/login, POST /auth/refresh and POST /auth/logout *)

\* the server's clock moves on to the next second
TickSecond ==
    /\ clock < MaxSecond
    /\ clock' = clock + 1
    /\ resp' = NoResp
    /\ UNCHANGED <<day, users, events, usedEvents, assignedUsers, participants,
                   checkInLogs, req, del, refresh, spent, stat>>

\* generateRefreshToken(payload): jwt.sign of the user's id, email and role
\* with the secret, the issue second and the expiry; two tokens signed for one
\* user within one second are the same string (tokens are presented long
\* before they expire)
generateRefreshToken(userId, second) == [userId |-> userId, iat |-> second]

\* POST /auth/login with the email and password of user u
Login(u) ==
    /\ IF u \notin DOMAIN users
       THEN /\ resp' = Reply("login", 401, "Invalid email or password")
            /\ UNCHANGED users
       ELSE /\ users' = [users EXCEPT
                            ![u].refreshToken = generateRefreshToken(u, clock)]
            /\ resp' = ReplyBody("login", 200, "Login successful",
                                 {generateRefreshToken(u, clock)})
    /\ UNCHANGED <<day, events, usedEvents, assignedUsers, participants,
                   checkInLogs, req, del, clock, refresh, spent, stat>>

\* POST /auth/refresh with the cookie token: verifyToken, the lookup of the
\* user and the comparison with the stored token
RefreshBegin(r, token) ==
    /\ refresh[r].pc = "idle"
    /\ IF token = NoToken
       THEN /\ resp' = Reply("refresh", 401, "Refresh token not provided")
            /\ UNCHANGED refresh
       ELSE IF \/ token.userId \notin DOMAIN users
               \/ users[token.userId].refreshToken # token
       THEN /\ resp' = Reply("refresh", 401, "Invalid refresh token")
            /\ UNCHANGED refresh
       ELSE /\ refresh' = [refresh EXCEPT ![r] =
                              [pc |-> "save", token |-> token,
                               user |-> users[token.userId]]]
            /\ resp' = NoResp
    /\ UNCHANGED <<day, users, events, usedEvents, assignedUsers, participants,
                   checkInLogs, req, del, clock, spent, stat>>

\* the new token is signed and save(user) writes it: an update of the row, or
\* an insert of the row the request had read when the row is gone by now (an
\* insert the store rejects when the row's adminId names no user)
RefreshSave(r) ==
    /\ refresh[r].pc = "save"
    /\ LET u   == refresh[r].token.userId
           new == generateRefreshToken(u, clock)
           row == refresh[r].user
       IN IF u \in DOMAIN users
          THEN /\ users' = [users EXCEPT ![u].refreshToken = new]
               /\ spent' = spent \cup {refresh[r].token}
               /\ resp' = ReplyBody("refresh", 200, "Token refreshed successfully",
                                    {new})
          ELSE IF row.adminId = NULL \/ row.adminId \in DOMAIN users
          THEN /\ users' = [v \in DOMAIN users \cup {u} |->
                               IF v = u THEN [row EXCEPT !.refreshToken = new]
                               ELSE users[v]]
               /\ spent' = spent \cup {refresh[r].token}
               /\ resp' = ReplyBody("refresh", 200, "Token refreshed successfully",
                                    {new})
          ELSE /\ resp' = Reply("refresh", 401, "Invalid refresh token")
               /\ UNCHANGED <<users, spent>>
    /\ refresh' = [refresh EXCEPT ![r] = IdleRefresh]
    /\ UNCHANGED <<day, events, usedEvents, assignedUsers, participants,
                   checkInLogs, req, del, clock, stat>>

\* POST /auth/logout by user u, whom authenticate has found
Logout(u) ==
    /\ u \in DOMAIN users
    /\ users' = [users EXCEPT ![u].refreshToken = NoToken]
    /\ spent' = spent \cup ({users[u].refreshToken} \ {NoToken})
    /\ resp' = Reply("logout", 200, "Logout successful")
    /\ UNCHANGED <<day, events, usedEvents, assignedUsers, participants,
                   checkInLogs, req, del, clock, refresh, stat>>

----------------------------------------------------------------------------
(* POST /events/:eventId/assign *)

\* an assignment that adds the users to those the event already has
AssignUsersKeep(caller, eventId, userIds) ==
    /\ IF ~IsSuperAdmin(caller)
       THEN /\ resp' = Reply("assign", 403, "Super Admin access required")
            /\ UNCHANGED assignedUsers
       ELSE IF eventId \notin DOMAIN events
       THEN /\ resp' = Reply("assign", 404, "Event not found")
            /\ UNCHANGED assignedUsers
       ELSE /\ assignedUsers' =
                  assignedUsers
                  \cup {<<eventId, u>> : u \in userIds \cap DOMAIN users}
            /\ resp' = Reply("assign", 200, "Users assigned to event successfully")
    /\ UNCHANGED <<day, users, events, usedEvents, participants, checkInLogs,
                   req, del>>
    /\ UNCHANGED <<clock, refresh, spent, stat>>

\* event.assignedUsers = usersToAssign; save(event): the event's rows of the
\* join table are replaced by the users found for userIds
AssignUsers(caller, eventId, userIds) ==
    /\ IF ~IsSuperAdmin(caller)
       THEN /\ resp' = Reply("assign", 403, "Super Admin access required")
            /\ UNCHANGED assignedUsers
       ELSE IF eventId \notin DOMAIN events
       THEN /\ resp' = Reply("assign", 404, "Event not found")
            /\ UNCHANGED assignedUsers
       ELSE /\ assignedUsers' =
                  {a \in assignedUsers : a[1] # eventId}
                  \cup {<<eventId, u>> : u \in userIds \cap DOMAIN users}
            /\ resp' = Reply("assign", 200, "Users assigned to event successfully")
    /\ UNCHANGED <<day, users, events, usedEvents, participants, checkInLogs,
                   req, del>>
    /\ UNCHANGED <<clock, refresh, spent, stat>>

----------------------------------------------------------------------------
(* Aggregations of GET /events/:eventId/statistics *)

\* checkInLogRepository.count({ where: { eventId } })
totalCheckIns(eventId) == LogCount(eventId)

\* participantRepository.count({ where: { eventId } })
totalParticipants(eventId) ==
    Cardinality({p \in DOMAIN participants : participants[p].eventId = eventId})

\* the participants the breakdown query joins to at least one ledger row:
\* p.eventId = :eventId, inner join on the ledger with l.eventId = :eventId
CheckedInParticipants(eventId) ==
    {p \in DOMAIN participants :
        /\ participants[p].eventId = eventId
        /\ \E l \in LogRows : l.participantId = p /\ l.eventId = eventId}

\* COUNT(*) of one group: every joined ledger row counts
GroupCountRows(eventId, field, value) ==
    LET rows == {l \in LogRows : /\ l.eventId = eventId
                                 /\ l.participantId \in CheckedInParticipants(eventId)
                                 /\ participants[l.participantId][field] = value}
        RECURSIVE Sum(_)
        Sum(S) == IF S = {} THEN 0
                  ELSE LET x == CHOOSE y \in S : TRUE
                       IN CopiesIn(x, checkInLogs) + Sum(S \ {x})
    IN Sum(rows)

\* COUNT(DISTINCT p.id) of one group of the breakdown query
GroupCount(eventId, field, value) ==
    Cardinality({p \in CheckedInParticipants(eventId) : participants[p][field] = value})

\* the name the handler gives a group: null and '' become 'NOT STATED'
GroupName(value) == IF value = NULL \/ value = "" THEN "NOT STATED" ELSE value

\* getBreakdown(field): one entry per value of the column among the joined
\* rows (GROUP BY), each with its distinct participants counted
getBreakdown(eventId, field) ==
    {[name  |-> GroupName(v), value |-> v, count |-> GroupCount(eventId, field, v)] :
        v \in {participants[p][field] : p \in CheckedInParticipants(eventId)}}

\* a flag of the participant a ledger row is left-joined to (a row without
\* participant has NULL there, which the queries treat like false)
JoinedFlag(l, flag) ==
    IF l.participantId \in DOMAIN participants
    THEN participants[l.participantId][flag]
    ELSE FALSE

\* getCount() of a category query: the ledger rows of the event whose
\* participant has isInvited among invited and isRegisteredVoter among
\* registered
CategoryCount(eventId, invited, registered) ==
    LET rows == {l \in LogRows : /\ l.eventId = eventId
                                 /\ JoinedFlag(l, "isInvited") \in invited
                                 /\ JoinedFlag(l, "isRegisteredVoter") \in registered}
        RECURSIVE Sum(_)
        Sum(S) == IF S = {} THEN 0
                  ELSE LET x == CHOOSE y \in S : TRUE
                       IN CopiesIn(x, checkInLogs) + Sum(S \ {x})
    IN Sum(rows)

----------------------------------------------------------------------------
(* AnalyticsController.getEventHierarchyStats and PdfService.getEventAnalytics *)

\* the levels of the model's participant columns (ward and group take the
\* same path as county and constituency)
HierarchyLevels == {"county", "constituency"}

\* the column the parentName filter is applied to
parentFilterField(level) == IF level = "constituency" THEN "county" ELSE NULL

\* the participants the hierarchy query selects: participant.eventId =
\* :eventId, inner join on the participant's ledger rows, the level's column
\* neither null nor '', the parent column equal to parentName when both a
\* parentName and a parent column are there
HierarchyParticipants(eventId, level, parentName) ==
    {p \in DOMAIN participants :
        /\ participants[p].eventId = eventId
        /\ \E l \in LogRows : l.participantId = p
        /\ participants[p][level] \notin {NULL, ""}
        /\ (parentName \notin {NULL, ""} /\ parentFilterField(level) # NULL)
           => participants[p][parentFilterField(level)] = parentName}

\* GROUP BY the level's column with COUNT(DISTINCT participant.id)
getEventHierarchyStats(eventId, level, parentName) ==
    LET joined == HierarchyParticipants(eventId, level, parentName)
    IN {[name |-> v,
         totalCheckedIn |-> Cardinality({p \in joined : participants[p][level] = v})] :
           v \in {participants[p][level] : p \in joined}}

\* a count of the event's ledger rows in place of its checked-in participants
checkedInCountRows(eventId) == LogCount(eventId)

\* checkedInParticipants.length of getEventAnalytics: the participants of the
\* event whose id occurs among the event's ledger rows
checkedInCount(eventId) == Cardinality(CheckedInParticipants(eventId))

\* the number of table rows a set of distinct ledger rows stands for
RECURSIVE RowCount(_)
RowCount(rows) ==
    IF rows = {} THEN 0
    ELSE LET x == CHOOSE y \in rows : TRUE
         IN CopiesIn(x, checkInLogs) + RowCount(rows \ {x})

\* userRepository.find() names no order: two of the orders the store may
\* return the rows of users in
UserOrders == {<<"sa", "ad", "u0", "u1">>, <<"u1", "u0", "ad", "sa">>}

\* the rows of users that exist, in the order the store returns them
usersFound(order) ==
    LET Exists(u) == u \in DOMAIN users
    IN SelectSeq(order, Exists)

\* .filter(u => u.role !== 'admin' && u.role !== 'super_admin')
isStaff(u) == users[u].role # ADMIN /\ users[u].role # SUPER_ADMIN

\* relations: ['checkInLogs'] of a user: the ledger rows the user recorded
userCheckInLogs(u) == {l \in LogRows : l.checkedInById = u}

\* a sort that puts the smallest count first
sortAscending(s) ==
    LET RECURSIVE Sorted(_)
        Sorted(t) ==
            IF t = << >> THEN << >>
            ELSE LET rest == Sorted(Tail(t))
                     k == Cardinality({i \in 1..Len(rest) :
                                          rest[i].checkIns < Head(t).checkIns})
                 IN SubSeq(rest, 1, k) \o <<Head(t)>> \o SubSeq(rest, k + 1, Len(rest))
    IN Sorted(s)

\* .sort((a, b) => b.checkIns - a.checkIns): a stable sort, the entries of
\* equal count stay in the order they came in
sortByCheckIns(s) ==
    LET RECURSIVE Sorted(_)
        Sorted(t) ==
            IF t = << >> THEN << >>
            ELSE LET rest == Sorted(Tail(t))
                     k == Cardinality({i \in 1..Len(rest) :
                                          rest[i].checkIns > Head(t).checkIns})
                 IN SubSeq(rest, 1, k) \o <<Head(t)>> \o SubSeq(rest, k + 1, Len(rest))
    IN Sorted(s)

\* staffData.reduce((sum, d) => sum + d.checkIns, 0)
RECURSIVE sumCheckIns(_)
sumCheckIns(s) ==
    IF s = << >> THEN 0 ELSE Head(s).checkIns + sumCheckIns(Tail(s))

\* getStaffAnalytics(): stats.staff, stats.totalUsers and stats.totalCheckIns
\* (a user stands for the name and email of the entry)
getStaffAnalytics(order) ==
    LET staffUsers == SelectSeq(usersFound(order), isStaff)
        staffData  == [i \in 1..Len(staffUsers) |->
                          [user     |-> staffUsers[i],
                           checkIns |-> RowCount(userCheckInLogs(staffUsers[i]))]]
    IN [staff         |-> sortByCheckIns(staffData),
        totalUsers    |-> Len(staffUsers),
        totalCheckIns |-> sumCheckIns(staffData)]

\* eventStaffData of getEventAnalytics: the ledger rows of the event counted
\* per user, the users without any left out
eventStaffData(eventId, order) ==
    LET staffUsers == SelectSeq(usersFound(order), isStaff)
        counted    == [i \in 1..Len(staffUsers) |->
                          [user     |-> staffUsers[i],
                           checkIns |-> RowCount({l \in userCheckInLogs(staffUsers[i]) :
                                                     l.eventId = eventId})]]
        HasCheckIns(d) == d.checkIns > 0
    IN sortByCheckIns(SelectSeq(counted, HasCheckIns))

\* new Date(): the calendar date the server-local day falls on
Today == [known |-> TRUE, year |-> 2024, month |-> 6, date |-> 14 + day]

daysInMonth(year, month) ==
    IF month = 2
    THEN IF year % 4 = 0 /\ (year % 100 # 0 \/ year % 400 = 0) THEN 29 ELSE 28
    ELSE IF month \in {4, 6, 9, 11} THEN 30 ELSE 31

\* the calendar date before d
dayBefore(d) ==
    IF d.date > 1
    THEN [d EXCEPT !.date = d.date - 1]
    ELSE IF d.month > 1
    THEN [d EXCEPT !.month = d.month - 1,
                   !.date = daysInMonth(d.year, d.month - 1)]
    ELSE [d EXCEPT !.year = d.year - 1, !.month = 12, !.date = 31]

\* new Date(dateOfBirth) read back with getFullYear(), getMonth() and
\* getDate(): the date column comes as YYYY-MM-DD, which is midnight UTC of
\* that day, and the local getters give the day itself east of Greenwich and
\* the day before west of it
birthDate(dateOfBirth, west) == IF west THEN dayBefore(dateOfBirth) ELSE dateOfBirth

\* calculateAge(dateOfBirth): null without a date of birth
calculateAge(dateOfBirth, today, west) ==
    IF ~dateOfBirth.known
    THEN [known |-> FALSE, years |-> 0]
    ELSE LET born      == birthDate(dateOfBirth, west)
             age       == today.year - born.year
             monthDiff == today.month - born.month
         IN [known |-> TRUE,
             years |-> IF monthDiff < 0 \/ (monthDiff = 0 /\ today.date < born.date)
                       THEN age - 1
                       ELSE age]

\* getAgeGroup(age)
getAgeGroup(age) ==
    IF ~age.known THEN "NOT STATED"
    ELSE IF age.years >= 18 /\ age.years < 27 THEN "18-27"
    ELSE IF age.years >= 27 /\ age.years < 35 THEN "27-35"
    ELSE IF age.years >= 35 /\ age.years < 50 THEN "35-50"
    ELSE IF age.years >= 50 /\ age.years < 65 THEN "50-64"
    ELSE IF age.years >= 65 THEN "65+"
    ELSE "NOT STATED"

ageOrder == <<"18-27", "27-35", "35-50", "50-64", "65+", "NOT STATED">>

\* ageStatsUnsorted[group]: the checked-in participants of the group, those
\* under 18 skipped
ageStatsUnsorted(eventId, west, group) ==
    Cardinality({p \in CheckedInParticipants(eventId) :
                    LET age == calculateAge(participants[p].dateOfBirth, Today, west)
                    IN /\ ~(age.known /\ age.years < 18)
                       /\ getAgeGroup(age) = group})

\* ageStats: the groups of ageOrder that have a count, in that order
ageStats(eventId, west) ==
    LET Counted(group) == ageStatsUnsorted(eventId, west, group) > 0
        groups == SelectSeq(ageOrder, Counted)
    IN [i \in 1..Len(groups) |->
           [group |-> groups[i], count |-> ageStatsUnsorted(eventId, west, groups[i])]]

----------------------------------------------------------------------------
(* The read endpoints *)

\* innerJoin('event.assignedUsers') ... assignedUser.id = :userId
IsAssigned(eventId, u) == <<eventId, u>> \in assignedUsers

\* GET /events: super admins see every event, everybody else the events they
\* are assigned to (a page holds more events than the model ever has)
GetEvents(caller) ==
    /\ resp' = ReplyBody("listEvents", 200, "Events retrieved successfully",
                  IF IsSuperAdmin(caller)
                  THEN DOMAIN events
                  ELSE {e \in DOMAIN events : IsAssigned(e, caller)})
    /\ UNCHANGED <<day, users, events, usedEvents, assignedUsers, participants,
                   checkInLogs, req, del>>
    /\ UNCHANGED <<clock, refresh, spent, stat>>

\* GET /events/:eventId
GetEvent(caller, eventId) ==
    /\ resp' = IF eventId \notin DOMAIN events
               THEN Reply("getEvent", 404, "Event not found")
               ELSE IF ~IsSuperAdmin(caller) /\ ~IsAssigned(eventId, caller)
               THEN Reply("getEvent", 403, "Access denied")
               ELSE ReplyBody("getEvent", 200, "Event retrieved successfully",
                              {eventId})
    /\ UNCHANGED <<day, users, events, usedEvents, assignedUsers, participants,
                   checkInLogs, req, del>>
    /\ UNCHANGED <<clock, refresh, spent, stat>>

\* GET /events/:eventId/statistics, no other request committing while it runs
GetStatistics(caller, eventId) ==
    /\ resp' = IF eventId \notin DOMAIN events
               THEN Reply("statistics", 404, "Event not found")
               ELSE IF ~IsSuperAdmin(caller) /\ ~IsAssigned(eventId, caller)
               THEN Reply("statistics", 403, "Access denied")
               ELSE ReplyBody("statistics", 200, "",
                      {[total_check_ins    |-> totalCheckIns(eventId),
                        total_participants |-> totalParticipants(eventId),
                        invited_check_ins  |->
                            CategoryCount(eventId, {TRUE}, BOOLEAN),
                        registered_walk_ins |->
                            CategoryCount(eventId, {FALSE}, BOOLEAN),
                        adult_population_check_ins |->
                            CategoryCount(eventId, {FALSE}, {FALSE}),
                        invited_registered_check_ins |->
                            CategoryCount(eventId, {TRUE}, {TRUE}),
                        invited_not_registered_check_ins |->
                            CategoryCount(eventId, {TRUE}, {FALSE}),
                        total_registered_check_ins |->
                            CategoryCount(eventId, BOOLEAN, {TRUE}),
                        total_not_registered_check_ins |->
                            CategoryCount(eventId, BOOLEAN, {FALSE}),
                        county             |-> getBreakdown(eventId, "county")]})
    /\ UNCHANGED <<day, users, events, usedEvents, assignedUsers, participants,
                   checkInLogs, req, del>>
    /\ UNCHANGED <<clock, refresh, spent, stat>>

\* the count queries of GET /events/:eventId/statistics, in the order the
\* handler awaits them
StatQueries ==
    <<"total_check_ins", "total_participants", "invited_check_ins",
      "registered_walk_ins", "adult_population_check_ins",
      "invited_registered_check_ins", "invited_not_registered_check_ins",
      "total_registered_check_ins", "total_not_registered_check_ins">>

\* what one of the count queries finds in the tables as they are
StatQuery(eventId, name) ==
    CASE name = "total_check_ins" -> totalCheckIns(eventId)
      [] name = "total_participants" -> totalParticipants(eventId)
      [] name = "invited_check_ins" -> CategoryCount(eventId, {TRUE}, BOOLEAN)
      [] name = "registered_walk_ins" -> CategoryCount(eventId, {FALSE}, BOOLEAN)
      [] name = "adult_population_check_ins" -> CategoryCount(eventId, {FALSE}, {FALSE})
      [] name = "invited_registered_check_ins" -> CategoryCount(eventId, {TRUE}, {TRUE})
      [] name = "invited_not_registered_check_ins" ->
             CategoryCount(eventId, {TRUE}, {FALSE})
      [] name = "total_registered_check_ins" -> CategoryCount(eventId, BOOLEAN, {TRUE})
      [] name = "total_not_registered_check_ins" ->
             CategoryCount(eventId, BOOLEAN, {FALSE})

\* GET /events/:eventId/statistics, query by query, other requests committing
\* in between: the event lookup and the access check
StatisticsBegin(caller, eventId) ==
    /\ stat.pc = 0
    /\ IF eventId \notin DOMAIN events
       THEN /\ resp' = Reply("statistics", 404, "Event not found")
            /\ UNCHANGED stat
       ELSE IF ~IsSuperAdmin(caller) /\ ~IsAssigned(eventId, caller)
       THEN /\ resp' = Reply("statistics", 403, "Access denied")
            /\ UNCHANGED stat
       ELSE /\ stat' = [pc |-> 1, eventId |-> eventId, body |-> << >>]
            /\ resp' = NoResp
    /\ UNCHANGED <<day, users, events, usedEvents, assignedUsers, participants,
                   checkInLogs, req, del>>
    /\ UNCHANGED <<clock, refresh, spent>>

\* the next count query
StatisticsCount ==
    /\ stat.pc \in 1..Len(StatQueries)
    /\ LET name == StatQueries[stat.pc]
       IN stat' = [stat EXCEPT !.pc = stat.pc + 1,
                               !.body = stat.body @@
                                        (name :> StatQuery(stat.eventId, name))]
    /\ resp' = NoResp
    /\ UNCHANGED <<day, users, events, usedEvents, assignedUsers, participants,
                   checkInLogs, req, del>>
    /\ UNCHANGED <<clock, refresh, spent>>

\* the breakdown queries and res.json
StatisticsRespond ==
    /\ stat.pc = Len(StatQueries) + 1
    /\ resp' = ReplyBody("statistics", 200, "",
                  {stat.body @@ ("county" :> getBreakdown(stat.eventId, "county"))})
    /\ stat' = IdleStat
    /\ UNCHANGED <<day, users, events, usedEvents, assignedUsers, participants,
                   checkInLogs, req, del>>
    /\ UNCHANGED <<clock, refresh, spent>>

\* new Date(date) followed by setHours(0, 0, 0, 0): a YYYY-MM-DD string is read
\* as midnight UTC of that day, and the local midnight before that instant is
\* the day itself east of Greenwich and the day before west of it; a date
\* written any other way is read as local time and stays on its day
targetDate(date, west) == IF date.iso /\ west THEN date.day - 1 ELSE date.day

\* the :date parameter: a day written as YYYY-MM-DD (iso), a day written some
\* other way that new Date() reads all the same (such as Nov 5 2024), or a
\* string that new Date() cannot read (valid = FALSE)
DateParams ==
    {[valid |-> TRUE, iso |-> i, day |-> d] : i \in BOOLEAN, d \in Days}
    \cup {[valid |-> FALSE, iso |-> FALSE, day |-> 0]}

\* GET /participants/event/:eventId/date/:date
GetByDate(caller, eventId, date, west) ==
    /\ resp' = IF eventId \notin DOMAIN events
               THEN Reply("byDate", 404, "Event not found")
               ELSE IF ~date.valid
               THEN Reply("byDate", 400, "Invalid date format. Use YYYY-MM-DD")
               ELSE ReplyBody("byDate", 200, "Participants retrieved successfully",
                      {l \in LogRows : /\ l.eventId = eventId
                                       /\ l.checkInDate = targetDate(date, west)})
    /\ UNCHANGED <<day, users, events, usedEvents, assignedUsers, participants,
                   checkInLogs, req, del>>
    /\ UNCHANGED <<clock, refresh, spent, stat>>

\* GET /events/:eventId/checkins
GetCheckins(caller, eventId) ==
    /\ resp' = IF eventId \notin DOMAIN events
               THEN Reply("checkins", 404, "Event not found")
               ELSE ReplyBody("checkins", 200, "Check-ins retrieved successfully",
                      {l \in LogRows : l.eventId = eventId})
    /\ UNCHANGED <<day, users, events, usedEvents, assignedUsers, participants,
                   checkInLogs, req, del>>
    /\ UNCHANGED <<clock, refresh, spent, stat>>

\* GET /analytics/hierarchy/:eventId?level=...&parentName=...
GetHierarchyStats(caller, eventId, level, parentName) ==
    /\ resp' = IF ~IsSuperAdmin(caller)
               THEN Reply("hierarchy", 403, "Super Admin access required")
               ELSE IF level \in {NULL, ""}
               THEN Reply("hierarchy", 400, "Event ID and level are required")
               ELSE IF level \notin HierarchyLevels
               THEN Reply("hierarchy", 400, "Invalid level")
               ELSE ReplyBody("hierarchy", 200, "",
                      getEventHierarchyStats(eventId, level, parentName))
    /\ UNCHANGED <<day, users, events, usedEvents, assignedUsers, participants,
                   checkInLogs, req, del>>
    /\ UNCHANGED <<clock, refresh, spent, stat>>

\* GET /events/:eventId/analytics: getEventAnalytics throws for an unknown
\* event, which the route answers with 500; west tells on which side of
\* Greenwich the server's clock is set, order the order the users come in
GetEventAnalytics(caller, eventId, west, order) ==
    /\ resp' = IF eventId \notin DOMAIN events
               THEN Reply("analytics", 500, "Internal server error")
               ELSE ReplyBody("analytics", 200, "",
                      {[checkedIn |-> checkedInCount(eventId),
                        age       |-> ageStats(eventId, west),
                        staff     |-> eventStaffData(eventId, order)]})
    /\ UNCHANGED <<day, users, events, usedEvents, assignedUsers, participants,
                   checkInLogs, req, del>>
    /\ UNCHANGED <<clock, refresh, spent, stat>>

\* GET /events/analytics/staff
GetStaffAnalytics(caller, order) ==
    /\ resp' = IF ~IsSuperAdmin(caller)
               THEN Reply("staff", 403, "Super Admin access required")
               ELSE ReplyBody("staff", 200, "", {getStaffAnalytics(order)})
    /\ UNCHANGED <<day, users, events, usedEvents, assignedUsers, participants,
                   checkInLogs, req, del>>
    /\ UNCHANGED <<clock, refresh, spent, stat>>

----------------------------------------------------------------------------
(* Concurrent check-ins for one participant, with the participant's and the *)
(* event's rows added, edited and deleted underneath them                   *)

RaceParticipantRows ==
    [idNumber : IdNumbers, eventId : EventIds, county : {"A"},
     constituency : {NULL}, isInvited : {FALSE}, isRegisteredVoter : {FALSE},
     dateOfBirth : {NoDate}]

Next ==
    \/ Tick
    \/ \E r \in ReqIds, e \in EventIds \cup {NULL}, n \in IdNumbers \cup {NULL, ""} :
          CheckInBegin(r, "u0", e, n)
    \/ \E r \in ReqIds : CheckInFindParticipant(r)
    \/ \E r \in ReqIds : CheckInLookup(r)
    \/ \E r \in ReqIds : CheckInSave(r)
    \/ \E row \in RaceParticipantRows : AddParticipant("p1", row)
    \/ \E row \in RaceParticipantRows : EditParticipant("p1", row)
    \/ \E e \in EventIds, n \in IdNumbers : SearchParticipant(e, n)
    \/ \E c \in {"sa", "ad"} : CreateEvent(c)
    \/ \E c \in {"sa", "ad", "u0"}, e \in EventIds : DeleteEventBegin(c, e)
    \/ DeleteEventLogs
    \/ DeleteEventParticipants
    \/ DeleteEventRemove

Spec == Init /\ [][Next]_vars

----------------------------------------------------------------------------
(* Access scoping of the endpoints: one check-in at a time, every kind of    *)
(* caller, the assignments of users to events and the read endpoints       *)

ScopeParticipantRows ==
    [idNumber : {"n1"}, eventId : EventIds, county : Counties,
     constituency : {NULL}, isInvited : {FALSE}, isRegisteredVoter : {FALSE},
     dateOfBirth : {NoDate}]

NextScope ==
    \/ Tick
    \/ CreateEvent("sa")
    \/ \E c \in {"sa", "u1"}, e \in EventIds, ids \in SUBSET {"u0", "u1"} :
          AssignUsers(c, e, ids)
    \/ \E row \in ScopeParticipantRows : AddParticipant("p1", row)
    \/ \E c \in {"sa", "u0"}, e \in EventIds : CheckInBegin("r1", c, e, "n1")
    \/ CheckInFindParticipant("r1")
    \/ CheckInLookup("r1")
    \/ CheckInSave("r1")
    \/ \E c \in UserIds : GetEvents(c)
    \/ \E c \in UserIds, e \in EventIds : GetEvent(c, e)
    \/ \E c \in UserIds, e \in EventIds : GetStatistics(c, e)
    \/ \E c \in UserIds, e \in EventIds, d \in DateParams, west \in BOOLEAN :
          GetByDate(c, e, d, west)
    \/ \E c \in UserIds, e \in EventIds : GetCheckins(c, e)

SpecScope == Init /\ [][NextScope]_vars

----------------------------------------------------------------------------
(* Check-ins one after the other over several days and participants, with  *)
(* the statistics of the event                                             *)

NextDays ==
    \/ Tick
    \/ CreateEvent("sa")
    \/ \E p \in PartIds, row \in ParticipantRows : AddParticipant(p, row)
    \/ \E c \in {"sa", "u0"}, e \in EventIds, n \in IdNumbers :
          CheckInBegin("r1", c, e, n)
    \/ CheckInFindParticipant("r1")
    \/ CheckInLookup("r1")
    \/ CheckInSave("r1")
    \/ \E e \in EventIds : GetStatistics("sa", e)

SpecDays == Init /\ [][NextDays]_vars

----------------------------------------------------------------------------
(* checkEventAccess on its own: any user row against any event row          *)

AccessUserRows ==
    [role : UserRole, adminId : UserIds \cup {NULL}, refreshToken : {NoToken}]

\* the helper applied to an event and a user of the tables
CheckAccess(eventId, u) ==
    /\ resp' = ReplyBody("checkEventAccess", 0, "",
                  {[event  |-> EventRow(eventId),
                    user   |-> UserRow(u),
                    result |-> checkEventAccess(EventRow(eventId), UserRow(u))]})
    /\ UNCHANGED <<day, users, events, usedEvents, assignedUsers, participants,
                   checkInLogs, req, del>>
    /\ UNCHANGED <<clock, refresh, spent, stat>>

InitAccess ==
    /\ day = 1
    /\ \E u \in {"ad", "u0"}, row \in AccessUserRows : users = (u :> row)
    /\ \E c \in UserIds : events = ("e1" :> [createdById |-> c])
    /\ usedEvents = {"e1"}
    /\ assignedUsers = {}
    /\ participants = << >>
    /\ checkInLogs = EmptyBag
    /\ req = [r \in ReqIds |-> IdleReq]
    /\ del = IdleDel
    /\ resp = NoResp
    /\ clock = 0
    /\ refresh = [r \in ReqIds |-> IdleRefresh]
    /\ spent = {}
    /\ stat = IdleStat

NextAccess == \E e \in DOMAIN events, u \in DOMAIN users : CheckAccess(e, u)

SpecAccess == InitAccess /\ [][NextAccess]_vars

----------------------------------------------------------------------------
(* Everything that writes or reads the ledger, one request at a time: the  *)
(* check-ins of two users, participant upserts, assignments, the deletion  *)
(* of users and of events, and the read endpoints                          *)

NextLedger ==
    \/ Tick
    \/ CreateEvent("sa")
    \/ \E row \in RaceParticipantRows : AddParticipant("p1", row)
    \/ \E row \in RaceParticipantRows : EditParticipant("p1", row)
    \/ \E e \in EventIds, n \in IdNumbers : SearchParticipant(e, n)
    \/ \E c \in {"u0", "u1"} \cap DOMAIN users, e \in EventIds, n \in IdNumbers :
          CheckInBegin("r1", c, e, n)
    \/ CheckInFindParticipant("r1")
    \/ CheckInLookup("r1")
    \/ CheckInSave("r1")
    \/ \E c \in {"u0", "u1"} : AuthenticateRejected(c)
    \/ \E c \in {"sa", "ad"}, t \in {"u0", "u1", "sa"} : DeleteUser(c, t)
    \/ \E e \in EventIds, ids \in SUBSET {"u0"} : AssignUsers("sa", e, ids)
    \/ \E e \in EventIds : DeleteEventBegin("sa", e)
    \/ DeleteEventLogs
    \/ DeleteEventParticipants
    \/ DeleteEventRemove
    \/ \E e \in EventIds : GetStatistics("sa", e)
    \/ \E e \in EventIds, d \in DateParams : GetByDate("sa", e, d, FALSE)
    \/ \E e \in EventIds : GetCheckins("sa", e)

SpecLedger == Init /\ [][NextLedger]_vars

----------------------------------------------------------------------------
(* Participants submitted with and without an id *)

NextUpsert ==
    \/ CreateEvent("sa")
    \/ \E p \in PartIds, row \in ParticipantRows : AddParticipant(p, row)
    \/ \E row \in ParticipantRows : AddParticipantNewId(row)
    \/ \E p \in PartIds, row \in ParticipantRows : EditParticipant(p, row)
    \/ \E e \in EventIds, n \in IdNumbers : SearchParticipant(e, n)

SpecUpsert == Init /\ [][NextUpsert]_vars

----------------------------------------------------------------------------
(* The statistics and analytics of an event whose participants carry the    *)
(* isInvited and isRegisteredVoter flags                                    *)

StatsParticipantRows ==
    [idNumber : IdNumbers, eventId : EventIds, county : {"A"},
     constituency : {NULL}, isInvited : BOOLEAN, isRegisteredVoter : BOOLEAN,
     dateOfBirth : {NoDate}]

NextStats ==
    \/ Tick
    \/ CreateEvent("sa")
    \/ \E row \in StatsParticipantRows :
          AddParticipant(IF row.idNumber = "n1" THEN "p1" ELSE "p2", row)
    \/ \E e \in EventIds, n \in IdNumbers : CheckInBegin("r1", "u0", e, n)
    \/ CheckInFindParticipant("r1")
    \/ CheckInLookup("r1")
    \/ CheckInSave("r1")
    \/ \E e \in EventIds : GetStatistics("sa", e)
    \/ \E e \in EventIds, order \in UserOrders :
          GetEventAnalytics("sa", e, FALSE, order)

SpecStats == Init /\ [][NextStats]_vars

----------------------------------------------------------------------------
(* The hierarchy breakdown over two events between which participants are   *)
(* moved by re-submitting them, all on one day                              *)

HierarchyParticipantRows ==
    [idNumber : IdNumbers, eventId : EventIds, county : {"A", NULL, ""},
     constituency : {"X", NULL}, isInvited : {FALSE}, isRegisteredVoter : {FALSE},
     dateOfBirth : {NoDate}]

\* the super admin has created both events
InitHierarchy ==
    /\ day = 1
    /\ users = SeedUsers
    /\ events = [e \in EventIds |-> [createdById |-> "sa"]]
    /\ usedEvents = EventIds
    /\ assignedUsers = {}
    /\ participants = << >>
    /\ checkInLogs = EmptyBag
    /\ req = [r \in ReqIds |-> IdleReq]
    /\ del = IdleDel
    /\ resp = NoResp
    /\ clock = 0
    /\ refresh = [r \in ReqIds |-> IdleRefresh]
    /\ spent = {}
    /\ stat = IdleStat

NextHierarchy ==
    \/ \E row \in HierarchyParticipantRows :
          AddParticipant(IF row.idNumber = "n1" THEN "p1" ELSE "p2", row)
    \/ \E e \in EventIds, n \in IdNumbers : CheckInBegin("r1", "u0", e, n)
    \/ CheckInFindParticipant("r1")
    \/ CheckInLookup("r1")
    \/ CheckInSave("r1")
    \/ \E c \in {"sa", "u0"}, e \in EventIds,
          level \in HierarchyLevels \cup {NULL, "village"}, parentName \in {NULL, "A"} :
          GetHierarchyStats(c, e, level, parentName)

SpecHierarchy == InitHierarchy /\ [][NextHierarchy]_vars

----------------------------------------------------------------------------
(* The staff reports over two events, two users recording the check-ins,    *)
(* all on one day                                                           *)

StaffParticipantRows ==
    [idNumber : IdNumbers, eventId : EventIds, county : {"A"},
     constituency : {NULL}, isInvited : {FALSE}, isRegisteredVoter : {FALSE},
     dateOfBirth : {NoDate}]

NextStaff ==
    \/ \E row \in StaffParticipantRows :
          AddParticipant(IF row.idNumber = "n1" THEN "p1" ELSE "p2", row)
    \/ \E c \in {"u0", "u1"}, e \in EventIds, n \in IdNumbers :
          CheckInBegin("r1", c, e, n)
    \/ CheckInFindParticipant("r1")
    \/ CheckInLookup("r1")
    \/ CheckInSave("r1")
    \/ \E c \in {"sa", "ad"}, order \in UserOrders : GetStaffAnalytics(c, order)
    \/ \E e \in EventIds, order \in UserOrders :
          GetEventAnalytics("sa", e, FALSE, order)

SpecStaff == InitHierarchy /\ [][NextStaff]_vars

----------------------------------------------------------------------------
(* The age groups of an event's analytics, the participants' dates of birth *)
(* lying around today's date and around the edges of the groups            *)

BirthDates ==
    {NoDate,
     [known |-> TRUE, year |-> 2007, month |-> 6,  date |-> 15],
     [known |-> TRUE, year |-> 2006, month |-> 6,  date |-> 16],
     [known |-> TRUE, year |-> 1997, month |-> 6,  date |-> 17],
     [known |-> TRUE, year |-> 1989, month |-> 7,  date |-> 1],
     [known |-> TRUE, year |-> 1974, month |-> 6,  date |-> 15],
     [known |-> TRUE, year |-> 1959, month |-> 1,  date |-> 1]}

AgeParticipantRows ==
    [idNumber : IdNumbers, eventId : {"e1"}, county : {"A"},
     constituency : {NULL}, isInvited : {FALSE}, isRegisteredVoter : {FALSE},
     dateOfBirth : BirthDates]

NextAge ==
    \/ Tick
    \/ \E row \in AgeParticipantRows :
          AddParticipant(IF row.idNumber = "n1" THEN "p1" ELSE "p2", row)
    \/ \E n \in IdNumbers : CheckInBegin("r1", "u0", "e1", n)
    \/ CheckInFindParticipant("r1")
    \/ CheckInLookup("r1")
    \/ CheckInSave("r1")
    \/ \E west \in BOOLEAN, order \in UserOrders :
          GetEventAnalytics("sa", "e1", west, order)

SpecAge == InitHierarchy /\ [][NextAge]_vars

----------------------------------------------------------------------------
(* Check-ins by idNumber while participants are submitted without an id,    *)
(* each submission making a row of its own                                  *)

NextDuplicates ==
    \/ Tick
    \/ CreateEvent("sa")
    \/ \E row \in RaceParticipantRows : AddParticipantNewId(row)
    \/ \E e \in EventIds, n \in IdNumbers : SearchParticipant(e, n)
    \/ \E r \in ReqIds, e \in EventIds, n \in IdNumbers : CheckInBegin(r, "u0", e, n)
    \/ \E r \in ReqIds : CheckInFindParticipant(r)
    \/ \E r \in ReqIds : CheckInLookup(r)
    \/ \E r \in ReqIds : CheckInSave(r)

SpecDuplicates == Init /\ [][NextDuplicates]_vars

----------------------------------------------------------------------------
(* The statistics of an event queried while check-ins commit, all on one    *)
(* day                                                                      *)

NextStatsRace ==
    \/ CreateEvent("sa")
    \/ \E row \in StatsParticipantRows : AddParticipant("p1", row)
    \/ \E e \in EventIds, n \in IdNumbers : CheckInBegin("r1", "u0", e, n)
    \/ CheckInFindParticipant("r1")
    \/ CheckInLookup("r1")
    \/ CheckInSave("r1")
    \/ \E c \in {"sa", "u0"}, e \in EventIds : StatisticsBegin(c, e)
    \/ StatisticsCount
    \/ StatisticsRespond

SpecStatsRace == Init /\ [][NextStatsRace]_vars

----------------------------------------------------------------------------
(* The breakdown of the statistics over participants whose county is a      *)
(* name, null or the empty string, all on one day                           *)

BreakdownParticipantRows ==
    [idNumber : IdNumbers, eventId : EventIds, county : {"A", NULL, ""},
     constituency : {NULL}, isInvited : {FALSE}, isRegisteredVoter : {FALSE},
     dateOfBirth : {NoDate}]

NextBreakdown ==
    \/ CreateEvent("sa")
    \/ \E row \in BreakdownParticipantRows :
          AddParticipant(IF row.idNumber = "n1" THEN "p1" ELSE "p2", row)
    \/ \E e \in EventIds, n \in IdNumbers : CheckInBegin("r1", "u0", e, n)
    \/ CheckInFindParticipant("r1")
    \/ CheckInLookup("r1")
    \/ CheckInSave("r1")
    \/ \E e \in EventIds : GetStatistics("sa", e)

SpecBreakdown == Init /\ [][NextBreakdown]_vars

----------------------------------------------------------------------------
(* Logins, token refreshes, logouts and user deletions                      *)

\* the cookies a client may hold by now
CookieTokens == [userId : {"u0", "u1"}, iat : 0..clock] \cup {NoToken}

NextAuth ==
    \/ TickSecond
    \/ \E u \in {"u0", "u1"} : Login(u)
    \/ \E r \in ReqIds, token \in CookieTokens : RefreshBegin(r, token)
    \/ \E r \in ReqIds : RefreshSave(r)
    \/ \E u \in {"u0", "u1"} : Logout(u)
    \/ \E u \in {"u0", "u1"} : AuthenticateRejected(u)
    \/ \E t \in {"u0", "u1", "sa"} : DeleteUser("sa", t)

SpecAuth == Init /\ [][NextAuth]_vars

----------------------------------------------------------------------------
(* Properties of the check-in transaction *)

DuplicateCheckIn == Reply("checkin", 400, "Participant already checked in today")

CheckedIn == Reply("checkin", 201, "Participant checked in successfully")

\* the ledger rows of one (participantId, eventId, checkInDate), each counted
\* as often as the table holds it
RowsOfTriple(p, e, d) ==
    LET rows == {l \in LogRows : l.participantId = p /\ l.eventId = e /\ l.checkInDate = d}
        RECURSIVE Sum(_)
        Sum(S) == IF S = {} THEN 0
                  ELSE LET x == CHOOSE y \in S : TRUE
                       IN CopiesIn(x, checkInLogs) + Sum(S \ {x})
    IN Sum(rows)

\* C1: in every reachable state the ledger holds at most one row for any
\* (participantId, eventId, checkInDate)
C1_OnePerDay ==
    \A p \in PartIds, e \in EventIds, d \in Days : RowsOfTriple(p, e, d) <= 1

\* a request has passed the lookup and is about to insert a row whose triple
\* another request has inserted meanwhile
C1_Witness ==
    \E r \in ReqIds :
        /\ req[r].pc = "insert"
        /\ RowsOfTriple(req[r].participantId, req[r].eventId, req[r].today) = 1

\* C2 as claimed: the request whose insert the unique index rejects is
\* answered 400 'Participant already checked in today'
C2_RejectedInsertIsDuplicate ==
    [][\A r \in ReqIds :
          (/\ req[r].pc = "insert"
           /\ req'[r].pc = "idle"
           /\ req[r].participantId \in DOMAIN participants
           /\ req[r].eventId \in DOMAIN events
           /\ RowsOfTriple(req[r].participantId, req[r].eventId, req[r].today) > 0)
          => resp' = DuplicateCheckIn]_vars

\* C3: when the ledger holds a row for (participant, event, today), the
\* request that looks it up is answered 400 'Participant already checked in
\* today' and the ledger is left as it was
C3_DuplicateRejected ==
    [][\A r \in ReqIds :
          (/\ req[r].pc = "lookup"
           /\ req'[r] # req[r]
           /\ RowsOfTriple(req[r].participantId, req[r].eventId, day) > 0)
          => /\ resp' = DuplicateCheckIn
             /\ req'[r].pc = "idle"
             /\ checkInLogs' = checkInLogs]_vars

\* a duplicate has just been rejected and the row it ran into is there
C3_Witness ==
    /\ resp = DuplicateCheckIn
    /\ \E p \in PartIds, e \in EventIds : RowsOfTriple(p, e, day) = 1

\* the participant of the event has a ledger row in the event
HasCheckedIn(p, e) == \E l \in LogRows : l.participantId = p /\ l.eventId = e

\* C4: a check-in on a date without a row for the participant is not turned
\* away as a duplicate whatever other dates hold rows, and succeeds when the
\* store takes the row; each success adds one to total_check_ins of the
\* event, and adds one to the participant's breakdown group only when it is
\* the participant's first row in the event, so two dates make total_check_ins
\* rise by 2 and the group's count by 1
C4_MultiDay ==
    [][\A r \in ReqIds, p \in PartIds, e \in EventIds, v \in Counties :
          (req[r].participantId = p /\ req[r].eventId = e)
          => /\ (/\ req[r].pc = "lookup"
                 /\ req'[r] # req[r]
                 /\ RowsOfTriple(p, e, day) = 0)
                => req'[r].pc = "insert"
             /\ \A t \in Days :
                 (/\ req[r].pc = "insert"
                  /\ req[r].today = t
                  /\ req'[r].pc = "idle"
                  /\ p \in DOMAIN participants
                  /\ e \in DOMAIN events
                  /\ RowsOfTriple(p, e, t) = 0)
                 => /\ resp' = CheckedIn
                    /\ RowsOfTriple(p, e, t)' = 1
                    /\ \A d \in Days \ {t} :
                          RowsOfTriple(p, e, d)' = RowsOfTriple(p, e, d)
                    /\ totalCheckIns(e)' = totalCheckIns(e) + 1
                    /\ (participants[p].eventId = e /\ participants[p].county = v)
                       => GroupCount(e, "county", v)' =
                             GroupCount(e, "county", v)
                             + (IF HasCheckedIn(p, e) THEN 0 ELSE 1)]_vars

\* a participant has been checked in on two dates: two rows, total_check_ins
\* counts both and the participant's group counts the participant once
C4_Witness ==
    \E p \in DOMAIN participants, e \in DOMAIN events :
        /\ resp = CheckedIn
        /\ participants[p].eventId = e
        /\ \A q \in DOMAIN participants : q # p => ~HasCheckedIn(q, e)
        /\ RowsOfTriple(p, e, 1) = 1
        /\ RowsOfTriple(p, e, 2) = 1
        /\ totalCheckIns(e) = 2
        /\ [name |-> "A", value |-> "A", count |-> 1] \in getBreakdown(e, "county")

----------------------------------------------------------------------------
(* Properties of the access scoping *)

\* the caller neither passes checkEventAccess for the event nor is assigned
\* to it
OutOfScope(c, e) ==
    /\ ~checkEventAccess(EventRow(e), UserRow(c))
    /\ ~IsAssigned(e, c)

\* a step of a check-in request of caller c for event e
CheckInStepOf(r, c, e) ==
    /\ req[r].pc # "idle"
    /\ req[r].caller = c
    /\ req[r].eventId = e
    /\ req'[r] # req[r]

\* C7 as claimed: a check-in, a by-date retrieval and a ledger dump by a
\* caller who is out of the event's scope are answered 403, and such a
\* check-in writes no ledger row
C7_OutOfScopeRejected ==
    [][\A c \in UserIds, e \in DOMAIN events :
          OutOfScope(c, e)
          => /\ (resp'.op = "checkins" /\ GetCheckins(c, e)) => resp'.status = 403
             /\ \A d \in DateParams, west \in BOOLEAN :
                   (resp'.op = "byDate" /\ GetByDate(c, e, d, west)) => resp'.status = 403
             /\ \A r \in ReqIds :
                   CheckInStepOf(r, c, e)
                   => /\ checkInLogs' = checkInLogs
                      /\ resp'.op = "checkin" => resp'.status = 403]_vars

\* C8 as claimed: a plain user without adminId is shown no event and is
\* denied event detail, statistics, check-in and log retrieval for every
\* event, whatever has been assigned
C8_NoAdminNoAccess ==
    [][\A u \in UserIds :
          (users[u].role = USER /\ users[u].adminId = NULL)
          => /\ (resp'.op = "listEvents" /\ GetEvents(u)) => (resp'.status = 403 \/ resp'.body = {})
             /\ \A e \in DOMAIN events :
                   /\ (resp'.op = "getEvent" /\ GetEvent(u, e)) => resp'.status = 403
                   /\ (resp'.op = "statistics" /\ GetStatistics(u, e)) => resp'.status = 403
                   /\ (resp'.op = "checkins" /\ GetCheckins(u, e)) => resp'.status = 403
                   /\ \A d \in DateParams, west \in BOOLEAN :
                         (resp'.op = "byDate" /\ GetByDate(u, e, d, west)) => resp'.status = 403
                   /\ \A r \in ReqIds :
                         CheckInStepOf(r, u, e)
                         => /\ checkInLogs' = checkInLogs
                            /\ resp'.op = "checkin" => resp'.status = 403]_vars

\* C9 as claimed: event detail is granted to a plain user with adminId = A
\* exactly for the events created by A, and the event list shows the user
\* exactly those events
C9_AdminScopedUser ==
    [][\A u \in UserIds :
          (users[u].role = USER /\ users[u].adminId # NULL)
          => /\ (resp'.op = "listEvents" /\ GetEvents(u))
                => resp'.body = {e \in DOMAIN events :
                                    events[e].createdById = users[u].adminId}
             /\ \A e \in DOMAIN events :
                   (resp'.op = "getEvent" /\ GetEvent(u, e))
                   => (resp'.status = 200
                         <=> events[e].createdById = users[u].adminId)]_vars

\* C10: checkEventAccess is true for every super admin, for an admin exactly
\* when the event was created by that admin, and for a plain user exactly
\* when the user has an adminId and the event was created by that admin
C10_CheckEventAccess ==
    resp.op = "checkEventAccess"
    => \A b \in resp.body :
          /\ b.user.role = SUPER_ADMIN => b.result
          /\ b.user.role = ADMIN
             => (b.result <=> b.event.createdById = b.user.id)
          /\ b.user.role = USER
             => (b.result <=> (/\ b.user.adminId # NULL
                               /\ b.event.createdById = b.user.adminId))

\* the helper has granted an admin the event the admin created
C10_Witness ==
    /\ resp.op = "checkEventAccess"
    /\ \E b \in resp.body : /\ b.user.role = ADMIN
                            /\ b.event.createdById = b.user.id
                            /\ b.user.adminId # b.user.id
                            /\ b.result

----------------------------------------------------------------------------
(* Properties of the by-date query *)

\* C11 as claimed: the by-date query for event e and a date written as
\* YYYY-MM-DD is answered with exactly the ledger rows of e whose checkInDate
\* is that date
C11_ByDateExact ==
    [][\A c \in UserIds, e \in DOMAIN events, d \in DateParams, west \in BOOLEAN :
          (d.valid /\ d.iso /\ (resp'.op = "byDate" /\ GetByDate(c, e, d, west)))
          => /\ resp'.status = 200
             /\ resp'.body = {l \in LogRows : /\ l.eventId = e
                                              /\ l.checkInDate = d.day}]_vars

\* C12 as claimed: the by-date query answers 404 for an unknown event and 400
\* for every date parameter that is not a day written as YYYY-MM-DD
C12_MalformedDateRejected ==
    [][\A c \in UserIds, e \in EventIds, d \in DateParams, west \in BOOLEAN :
          (resp'.op = "byDate" /\ GetByDate(c, e, d, west))
          => /\ e \notin DOMAIN events => resp'.status = 404
             /\ (e \in DOMAIN events /\ ~d.iso) => resp'.status = 400]_vars

----------------------------------------------------------------------------
(* Properties of the aggregations *)

\* the participants of event e with at least one ledger row in e
DistinctCheckedIn(e) ==
    {p \in DOMAIN participants :
        /\ participants[p].eventId = e
        /\ \E d \in Days : RowsOfTriple(p, e, d) > 0}

\* the breakdown the claim describes: the checked-in participants of e whose
\* value at the level is neither null nor empty and whose parent column is
\* parentName when one is given, counted once each per value
ClaimedHierarchy(e, level, parentName) ==
    LET S == {p \in DistinctCheckedIn(e) :
                /\ participants[p][level] \notin {NULL, ""}
                /\ (parentName # NULL /\ level = "constituency")
                   => participants[p].county = parentName}
    IN {[name |-> v,
         totalCheckedIn |-> Cardinality({p \in S : participants[p][level] = v})] :
           v \in {participants[p][level] : p \in S}}

\* C13 as claimed: the hierarchy breakdown of event e lists, for each value
\* of the level that is neither null nor empty, the distinct participants of
\* e that have a ledger row in e (and the given parent)
C13_HierarchyBreakdown ==
    [][\A e \in EventIds, level \in HierarchyLevels, parentName \in {NULL, "A"} :
          (resp'.op = "hierarchy" /\ GetHierarchyStats("sa", e, level, parentName))
          => /\ resp'.status = 200
             /\ resp'.body = ClaimedHierarchy(e, level, parentName)]_vars

\* the distinct checked-in participants of e with the flags
DistinctWithFlags(e, invited, registered) ==
    Cardinality({p \in DistinctCheckedIn(e) :
                    /\ participants[p].isInvited \in invited
                    /\ participants[p].isRegisteredVoter \in registered})

\* C14 as claimed: every category count of the statistics is the number of
\* distinct checked-in participants of the event with the category's flags
C14_CategoryCountsDistinct ==
    [][\A e \in EventIds :
          ((resp'.op = "statistics" /\ GetStatistics("sa", e)) /\ resp'.status = 200)
          => \A b \in resp'.body :
                /\ b.invited_check_ins = DistinctWithFlags(e, {TRUE}, BOOLEAN)
                /\ b.registered_walk_ins = DistinctWithFlags(e, {FALSE}, BOOLEAN)
                /\ b.adult_population_check_ins = DistinctWithFlags(e, {FALSE}, {FALSE})
                /\ b.invited_registered_check_ins = DistinctWithFlags(e, {TRUE}, {TRUE})
                /\ b.invited_not_registered_check_ins = DistinctWithFlags(e, {TRUE}, {FALSE})
                /\ b.total_registered_check_ins = DistinctWithFlags(e, BOOLEAN, {TRUE})
                /\ b.total_not_registered_check_ins = DistinctWithFlags(e, BOOLEAN, {FALSE})]_vars

\* the number of ledger rows of event e, each row of the table counted
RowsOfEvent(e) ==
    Cardinality(UNION {{<<l, i>> : i \in 1..CopiesIn(l, checkInLogs)} :
                          l \in {x \in LogRows : x.eventId = e}})

\* the counts of a breakdown list added up
RECURSIVE SumOfCounts(_)
SumOfCounts(S) ==
    IF S = {} THEN 0
    ELSE LET x == CHOOSE y \in S : TRUE
         IN x.count + SumOfCounts(S \ {x})

\* C15: total_check_ins is the number of ledger rows of the event and
\* total_participants the number of its participant rows, while the county
\* breakdown and the analytics' checkedIn count every checked-in participant
\* once, however many ledger rows the participant has
C15_RawAndDistinctCounts ==
    [][\A e \in EventIds :
          /\ ((resp'.op = "statistics" /\ GetStatistics("sa", e)) /\ resp'.status = 200)
             => \A b \in resp'.body :
                   /\ b.total_check_ins = RowsOfEvent(e)
                   /\ b.total_participants =
                         Cardinality({p \in DOMAIN participants :
                                         participants[p].eventId = e})
                   /\ SumOfCounts(b.county) = Cardinality(DistinctCheckedIn(e))
          /\ ((\E order \in UserOrders : GetEventAnalytics("sa", e, FALSE, order))
              /\ resp'.status = 200)
             => \A b \in resp'.body :
                   b.checkedIn = Cardinality(DistinctCheckedIn(e))]_vars

\* the analytics of an event have just counted one checked-in participant
\* who has a ledger row on each of two days
C15_Witness ==
    /\ resp.op = "analytics"
    /\ resp.status = 200
    /\ \E e \in DOMAIN events, p \in DOMAIN participants :
          /\ participants[p].eventId = e
          /\ RowsOfTriple(p, e, 1) = 1
          /\ RowsOfTriple(p, e, 2) = 1
          /\ RowsOfEvent(e) = 2
          /\ \A b \in resp.body : b.checkedIn = 1

----------------------------------------------------------------------------
(* Properties of event deletion and of the ledger's rows *)

EventDeleted == Reply("deleteEvent", 200, "Event deleted successfully")

\* C16: a delete request by a caller who is neither the event's creator nor
\* a super admin is answered 403 and removes nothing; a delete is answered
\* with success only when the event's row is gone, and no participant row
\* and no ledger row carries the eventId of an event that has been deleted
C16_DeleteEvent ==
    [][/\ \A c \in UserIds, e \in DOMAIN events :
             (/\ DeleteEventBegin(c, e)
              /\ ~IsSuperAdmin(c)
              /\ events[e].createdById # c)
             => /\ resp'.status = 403
                /\ del' = del
                /\ events' = events
                /\ participants' = participants
                /\ checkInLogs' = checkInLogs
       /\ resp' = EventDeleted
          => /\ del.eventId \in DOMAIN events
             /\ del.eventId \notin DOMAIN events'
       /\ \A e \in usedEvents' \ DOMAIN events' :
             /\ \A p \in DOMAIN participants' : participants'[p].eventId # e
             /\ \A l \in BagToSet(checkInLogs') : l.eventId # e]_vars

\* an event has just been deleted while a check-in for it had passed its
\* lookup and was about to insert its row
C16_Witness ==
    /\ resp = EventDeleted
    /\ \E r \in ReqIds : /\ req[r].pc = "insert"
                          /\ req[r].eventId \in usedEvents \ DOMAIN events

UserDeleted ==
    Reply("deleteUser", 200, "User deleted successfully. All access tokens and refresh tokens have been revoked.")

\* the ledger rows a step takes away
RowsGone ==
    {l \in LogRows : CopiesIn(l, checkInLogs') < CopiesIn(l, checkInLogs)}

\* the ledger rows a step adds
RowsNew ==
    {l \in BagToSet(checkInLogs') : CopiesIn(l, checkInLogs') > CopiesIn(l, checkInLogs)}

C18_UserDeleteKeepsRows ==
    [][\A c \in UserIds, t \in UserIds :
          (DeleteUser(c, t) /\ resp' = UserDeleted)
          => checkInLogs' = checkInLogs]_vars

----------------------------------------------------------------------------
(* Properties of participant submissions *)

\* C19: a search, an add and an edit leave the ledger exactly as it was,
\* wherever they fall among the steps of check-ins, and after every step the
\* ledger holds no (participantId, eventId, checkInDate) twice
C19_SubmissionsLeaveLedger ==
    [][/\ resp'.op \in {"search", "add", "edit"} => checkInLogs' = checkInLogs
       /\ \A p \in PartIds, e \in EventIds, d \in Days :
             RowsOfTriple(p, e, d)' <= 1]_vars

\* a participant with a ledger row has just been re-submitted while a second
\* check-in for the same participant, event and day was about to insert
C19_Witness ==
    /\ resp = Reply("add", 201, "Participant added successfully")
    /\ \E r \in ReqIds :
          /\ req[r].pc = "insert"
          /\ RowsOfTriple(req[r].participantId, req[r].eventId, req[r].today) = 1

\* the participant rows of an event with an idNumber
RowsOfIdNumber(e, n) ==
    {p \in DOMAIN participants : /\ participants[p].eventId = e
                                 /\ participants[p].idNumber = n}

\* C20 as claimed: re-submitting a participant whose (eventId, idNumber) has
\* a row leaves that (eventId, idNumber) with one row, the submitted data in
\* it, and a second submission of the same data changes nothing
C20_AddIsUpsert ==
    [][\A row \in ParticipantRows :
          (/\ AddParticipantNewId(row)
           /\ resp'.status = 201
           /\ Cardinality(RowsOfIdNumber(row.eventId, row.idNumber)) = 1)
          => /\ Cardinality(RowsOfIdNumber(row.eventId, row.idNumber)') = 1
             /\ \A p \in RowsOfIdNumber(row.eventId, row.idNumber)' :
                   participants'[p] = row
             /\ row \in {participants[p] : p \in DOMAIN participants}
                => participants' = participants]_vars

----------------------------------------------------------------------------
(* Properties of the staff reports and of the age groups *)

\* the number of ledger rows user u recorded
RowsBy(u) ==
    Cardinality(UNION {{<<l, i>> : i \in 1..CopiesIn(l, checkInLogs)} :
                          l \in {x \in LogRows : x.checkedInById = u}})

\* the number of ledger rows of event e user u recorded
RowsOfEventBy(e, u) ==
    Cardinality(UNION {{<<l, i>> : i \in 1..CopiesIn(l, checkInLogs)} :
                          l \in {x \in LogRows : x.checkedInById = u /\ x.eventId = e}})

NonAdminUsers == {u \in DOMAIN users : users[u].role = USER}

\* the list names exactly the users of S, each once
ListsExactly(list, S) ==
    /\ Len(list) = Cardinality(S)
    /\ {list[i].user : i \in DOMAIN list} = S

SortedDescending(list) ==
    \A i, j \in DOMAIN list : i < j => list[i].checkIns >= list[j].checkIns

\* the sum of the checkIns of the entries a list holds for the users of S
RECURSIVE ListSum(_, _)
ListSum(list, S) ==
    IF S = {} THEN 0
    ELSE LET u == CHOOSE v \in S : TRUE
             i == CHOOSE k \in DOMAIN list : list[k].user = u
         IN list[i].checkIns + ListSum(list, S \ {u})

\* what both readings of the claim say of the global staff report
GlobalStaffReport(b) ==
    /\ ListsExactly(b.staff, NonAdminUsers)
    /\ \A i \in DOMAIN b.staff : b.staff[i].checkIns = RowsBy(b.staff[i].user)
    /\ SortedDescending(b.staff)
    /\ b.totalCheckIns = ListSum(b.staff, NonAdminUsers)

\* C21: the staff report lists every non-admin user with the number of ledger
\* rows the user recorded (of all events in the global report, of the given
\* event in the per-event report), sorted by that number descending, and the
\* reported totalCheckIns is the sum of the listed numbers
C21_StaffAnalytics ==
    [][/\ (\E c \in UserIds, order \in UserOrders :
              GetStaffAnalytics(c, order) /\ resp'.status = 200)
          => \A b \in resp'.body : GlobalStaffReport(b)
       /\ \A e \in EventIds :
             (\E order \in UserOrders :
                 GetEventAnalytics("sa", e, FALSE, order) /\ resp'.status = 200)
             => \A b \in resp'.body :
                   /\ ListsExactly(b.staff, NonAdminUsers)
                   /\ \A i \in DOMAIN b.staff :
                         b.staff[i].checkIns = RowsOfEventBy(e, b.staff[i].user)
                   /\ SortedDescending(b.staff)]_vars

\* C21, amended: the global report lists every non-admin user; the per-event
\* report lists the non-admin users who recorded at least one ledger row of
\* the event, and only those; each entry carries the number of ledger rows
\* the user recorded (of the event, in the per-event report), the lists are
\* sorted by that number descending, and the global report's totalCheckIns is
\* the sum of its entries
C21_StaffAnalyticsAmended ==
    [][/\ (\E c \in UserIds, order \in UserOrders :
              GetStaffAnalytics(c, order) /\ resp'.status = 200)
          => \A b \in resp'.body : GlobalStaffReport(b)
       /\ \A e \in EventIds :
             (\E order \in UserOrders :
                 GetEventAnalytics("sa", e, FALSE, order) /\ resp'.status = 200)
             => \A b \in resp'.body :
                   /\ ListsExactly(b.staff,
                                   {u \in NonAdminUsers : RowsOfEventBy(e, u) > 0})
                   /\ \A i \in DOMAIN b.staff :
                         b.staff[i].checkIns = RowsOfEventBy(e, b.staff[i].user)
                   /\ SortedDescending(b.staff)]_vars

\* the per-event report has just listed one user with two check-ins, while
\* the other non-admin user has recorded a check-in of the other event only
C21_Witness ==
    /\ resp.op = "analytics"
    /\ resp.status = 200
    /\ \E e \in EventIds, u, v \in NonAdminUsers :
          /\ u # v
          /\ RowsOfEventBy(e, u) = 2
          /\ RowsOfEventBy(e, v) = 0
          /\ RowsBy(v) = 1
          /\ \A b \in resp.body : b.staff = <<[user |-> u, checkIns |-> 2]>>

\* the completed years of age on the day today of somebody born on born
CompletedYears(born, today) ==
    IF today.month < born.month \/ (today.month = born.month /\ today.date < born.date)
    THEN today.year - born.year - 1
    ELSE today.year - born.year

\* the age bucket the claim gives a checked-in participant ("dropped" for
\* those under 18)
ClaimedBucket(p) ==
    LET born == participants[p].dateOfBirth
        age  == CompletedYears(born, Today)
    IN IF ~born.known THEN "NOT STATED"
       ELSE IF age < 18 THEN "dropped"
       ELSE IF age <= 26 THEN "18-27"
       ELSE IF age <= 34 THEN "27-35"
       ELSE IF age <= 49 THEN "35-50"
       ELSE IF age <= 64 THEN "50-64"
       ELSE "65+"

ClaimedBucketCount(e, bucket) ==
    Cardinality({p \in DistinctCheckedIn(e) : ClaimedBucket(p) = bucket})

\* the non-zero buckets in the fixed order
ClaimedAgeStats(e) ==
    LET NonZero(bucket) == ClaimedBucketCount(e, bucket) > 0
        buckets == SelectSeq(<<"18-27", "27-35", "35-50", "50-64", "65+", "NOT STATED">>,
                             NonZero)
    IN [i \in 1..Len(buckets) |->
           [group |-> buckets[i], count |-> ClaimedBucketCount(e, buckets[i])]]

\* C22: the analytics of an event put every checked-in participant with a
\* date of birth into the bucket of their completed years of age (under 18
\* dropped), those without one under NOT STATED, and list the non-zero
\* buckets in the fixed order
C22_AgeBuckets ==
    [][\A west \in BOOLEAN :
          (\E order \in UserOrders :
              GetEventAnalytics("sa", "e1", west, order) /\ resp'.status = 200)
          => \A b \in resp'.body : b.age = ClaimedAgeStats("e1")]_vars

----------------------------------------------------------------------------
(* Properties of the ledger against the participants table *)

\* C23: every ledger row carries the eventId of the participant row it
\* references
C23_LedgerEventIsParticipantEvent ==
    \A l \in LogRows :
        l.participantId \in DOMAIN participants
        => l.eventId = participants[l.participantId].eventId

\* the number of ledger rows of event e and day d whose participant has the
\* idNumber n
RowsOfIdNumberOn(e, n, d) ==
    Cardinality(UNION {{<<l, i>> : i \in 1..CopiesIn(l, checkInLogs)} :
                          l \in {x \in LogRows :
                                    /\ x.eventId = e
                                    /\ x.checkInDate = d
                                    /\ x.participantId \in DOMAIN participants
                                    /\ participants[x.participantId].idNumber = n}})

\* C24: of the check-ins of one event with one idNumber on one day at most
\* one has succeeded, however many participant rows carry the idNumber
\* (participant rows are neither changed nor removed here, so the ledger rows
\* of an idNumber are the check-ins that succeeded with it)
C24_OnePerIdNumberPerDay ==
    \A e \in EventIds, n \in IdNumbers, d \in Days : RowsOfIdNumberOn(e, n, d) <= 1

----------------------------------------------------------------------------
(* Properties of event deletion under concurrent requests *)

\* C25: when a delete request finishes, either the event is gone and no
\* participant or ledger row references it, or the event is still there and
\* the request has deleted none of its rows
C25_DeleteAllOrNothing ==
    [][DeleteEventRemove
       => \/ /\ del.eventId \notin DOMAIN events'
             /\ \A p \in DOMAIN participants' : participants'[p].eventId # del.eventId
             /\ \A l \in BagToSet(checkInLogs') : l.eventId # del.eventId
          \/ /\ del.eventId \in DOMAIN events'
             /\ ~del.removedRows]_vars

----------------------------------------------------------------------------
(* Properties of the dates the ledger stores and the queries select *)

\* C26: whichever side of Greenwich the server's clock is set to, a ledger
\* row recorded on server-local day D is in the answer of the by-date query
\* for D written as YYYY-MM-DD and in the answer of no by-date query for
\* another day
C26_StoredDayIsQueriedDay ==
    [][\A c \in UserIds, e \in DOMAIN events, D \in Days, west \in BOOLEAN :
          (/\ resp'.op = "byDate"
           /\ GetByDate(c, e, [valid |-> TRUE, iso |-> TRUE, day |-> D], west)
           /\ resp'.status = 200)
          => \A l \in LogRows :
                l.eventId = e => (l \in resp'.body <=> l.checkInDate = D)]_vars

----------------------------------------------------------------------------
(* Properties of the statistics *)

\* C27: in every statistics response invited_check_ins + registered_walk_ins
\* = total_check_ins, invited_registered_check_ins +
\* invited_not_registered_check_ins = invited_check_ins, and
\* total_registered_check_ins + total_not_registered_check_ins =
\* total_check_ins, also when check-ins commit while the request runs
C27_CategoryCountsConsistent ==
    [][(StatisticsRespond /\ resp'.status = 200)
       => \A b \in resp'.body :
             /\ b.invited_check_ins + b.registered_walk_ins = b.total_check_ins
             /\ b.invited_registered_check_ins + b.invited_not_registered_check_ins
                = b.invited_check_ins
             /\ b.total_registered_check_ins + b.total_not_registered_check_ins
                = b.total_check_ins]_vars

\* C28: in the county breakdown of a statistics response every name occurs
\* once, NOT STATED included, and the counts add up to the number of distinct
\* checked-in participants of the event
C28_BreakdownNamesOnce ==
    [][\A e \in EventIds :
          ((resp'.op = "statistics" /\ GetStatistics("sa", e)) /\ resp'.status = 200)
          => \A b \in resp'.body :
                /\ \A x, y \in b.county : x.name = y.name => x = y
                /\ SumOfCounts(b.county) = Cardinality(DistinctCheckedIn(e))]_vars

----------------------------------------------------------------------------
(* Properties of the assignment of users to events *)

\* what event e grants caller c in the state a step leads to
Assigned(e, c) == <<e, c>> \in assignedUsers

----------------------------------------------------------------------------
(* Properties of the refresh tokens *)

\* C30: a refresh never succeeds with a token that an earlier successful
\* refresh was given, or that its user held at a logout or at the user's
\* deletion; so two refreshes given the same token do not both succeed
C30_RefreshTokenOnce ==
    [][\A r \in ReqIds :
          (RefreshSave(r) /\ resp'.status = 200) => refresh[r].token \notin spent]_vars

====
